---- MODULE Spec2Model ----
(***************************************************************************)
(* The system health monitor (SystemHealthMonitor) of the factory          *)
(* application: two interval timers, the four health probes of one         *)
(* health-check cycle, result processing, alert creation and notification  *)
(* fan-out, and the status read.                                           *)
(*                                                                         *)
(* Execution model: the JavaScript event loop.  One action is one          *)
(* macrotask together with the microtasks it releases: the code between    *)
(* two real suspension points (a database query, a notification dispatch,  *)
(* a timer firing, a call of the public API).  An `await` of a promise     *)
(* that is already resolved does not let a timer or an I/O callback in;    *)
(* it only separates microtasks.                                           *)
(***************************************************************************)
EXTENDS Integers, Sequences, FiniteSets, TLC

\* ------------------------------------------------------------------ bounds
\* Health-check timer firings in one behaviour.
MaxHealthTicks == 2
\* Environment choices that are not the nominal one (a slow query, a query
\* that throws, a high heap sample, a dispatch that fails) in one behaviour.
MaxAnomalies == 2
\* The longest round-trip (ms) a direct call of the connection probe is given.
MaxProbeMs == 7000
\* The largest heapUsed and heapTotal a direct call of the memory probe is given.
MaxHeap == 100
\* The age in days of the oldest performance-metric row a cleanup is given.
MaxAgeDays == 32

\* The largest answer of a counting query of the general-monitoring cycle.
MaxCount == 2
\* Production-order rows in the order form.
MaxRows == 2
\* Quantity-preview requests of the order form awaiting their response.
MaxRequests == 2
\* Orders the orders table is given.
MaxOrders == 3
\* Bulk operations of the orders table in one behaviour.
MaxBulkCalls == 1

\* --------------------------------------------------------------- constants
ConnWarningMs == 1000
ConnCriticalMs == 5000
PerfWarningMs == 500
PerfCriticalMs == 2000
MemWarningPercent == 80
MemCriticalPercent == 95
PERFORMANCE_RETENTION_DAYS == 30

Null == "null"

\* The probes in the order of the `checks` array of performHealthChecks.
CheckNames ==
  << "Database Connection", "Database Performance", "Memory Usage", "System Health API" >>

NumChecks == Len(CheckNames)

\* --------------------------------------------------------- environment
\* Round-trip times of the SELECT 1 of checkDatabaseConnection (ms).
ConnLatencies == {200, 1500, 7000}
\* Times of each of the two queries of checkDatabasePerformance (ms).
QueryLatencies == {100, 1500}
\* process.memoryUsage() samples: <<heapUsed, heapTotal>>.
MemSamples == { <<50, 100>>, <<85, 100>>, <<96, 100>> }
NominalMemSample == <<50, 100>>
\* What a failing call throws: an Error (it has a message) or a value without
\* properties (undefined/null), on which `error.message` itself throws.
Thrown == {"Error", "nullish"}
NoThrow == "none"

\* The nominal choice of each input; every other choice is an anomaly.
NominalConnLatency == CHOOSE x \in ConnLatencies : \A y \in ConnLatencies : x <= y
NominalQueryLatency == CHOOSE x \in QueryLatencies : \A y \in QueryLatencies : x <= y
Cost(choice, nominal) == IF choice = nominal THEN 0 ELSE 1

\* --------------------------------------------------------------- results
NoError == "undefined"
ErrorMessage == "message"

NoResult == [checkName |-> Null, status |-> Null, duration |-> 0, error |-> NoError]

HealthCheckResult(name, status, duration, error) ==
  [checkName |-> name, status |-> status, duration |-> duration, error |-> error]

\* A settled promise of a probe, as Promise.allSettled reports it.
Pending == [status |-> "pending", value |-> NoResult]
Fulfilled(r) == [status |-> "fulfilled", value |-> r]
Rejected == [status |-> "rejected", value |-> NoResult]

\* The catch block of a probe: `error: error.message` throws a TypeError when
\* the caught value is undefined or null, and the probe's promise rejects.
ProbeCatch(name, status, duration, thrown) ==
  IF thrown = "nullish"
    THEN Rejected
    ELSE Fulfilled(HealthCheckResult(name, status, duration, ErrorMessage))

ConnStatusInclusive(duration) ==
  IF duration >= ConnCriticalMs THEN "critical"
  ELSE IF duration >= ConnWarningMs THEN "warning"
  ELSE "healthy"

ConnStatus(duration) ==
  IF duration > ConnCriticalMs THEN "critical"
  ELSE IF duration > ConnWarningMs THEN "warning"
  ELSE "healthy"

checkDatabaseConnection(duration, thrown) ==
  IF thrown = NoThrow
    THEN Fulfilled(HealthCheckResult(CheckNames[1], ConnStatus(duration), duration, NoError))
    ELSE ProbeCatch(CheckNames[1], "critical", duration, thrown)

PerfStatus(duration) ==
  IF duration > PerfCriticalMs THEN "critical"
  ELSE IF duration > PerfWarningMs THEN "warning"
  ELSE "healthy"

\* duration covers both queries: Date.now() - startTime after the second one.
checkDatabasePerformance(duration, thrown) ==
  IF thrown = NoThrow
    THEN Fulfilled(HealthCheckResult(CheckNames[2], PerfStatus(duration), duration, NoError))
    ELSE ProbeCatch(CheckNames[2], "critical", duration, thrown)

ElapsedLastQuery(q1, q2) == q2

\* Date.now() - startTime once both queries, issued one after the other,
\* have returned.
Elapsed(q1, q2) == q1 + q2

\* The performance probe with the time and the outcome of each query: the
\* second query is issued only if the first returned.
runDatabasePerformance(q1, q1Thrown, q2, q2Thrown) ==
  IF q1Thrown # NoThrow
    THEN checkDatabasePerformance(q1, q1Thrown)
    ELSE checkDatabasePerformance(Elapsed(q1, q2), q2Thrown)

PercentAtLeast(used, total, limit) ==
  IF total = 0 THEN used > 0 ELSE used * 100 >= limit * total

\* (used / total) * 100 > limit, in IEEE arithmetic: x/0 is Infinity for
\* x > 0 and 0/0 is NaN, which compares false with everything.
PercentAbove(used, total, limit) ==
  IF total = 0 THEN used > 0 ELSE used * 100 > limit * total

MemStatus(used, total) ==
  IF PercentAbove(used, total, MemCriticalPercent) THEN "critical"
  ELSE IF PercentAbove(used, total, MemWarningPercent) THEN "warning"
  ELSE "healthy"

\* The probe has no await: it is settled when the `checks` array is built.
checkSystemMemory(sample, thrown) ==
  IF thrown = NoThrow
    THEN Fulfilled(HealthCheckResult(CheckNames[3], MemStatus(sample[1], sample[2]), 0, NoError))
    ELSE ProbeCatch(CheckNames[3], "unknown", 0, thrown)

checkSystemHealth(thrown) ==
  IF thrown = NoThrow
    THEN Fulfilled(HealthCheckResult(CheckNames[4], "healthy", 0, NoError))
    ELSE ProbeCatch(CheckNames[4], "critical", 0, thrown)

\* ---------------------------------------------------------------- alerts
NoAlert ==
  [type |-> Null, category |-> Null, severity |-> Null, source |-> Null,
   source_id |-> Null, message |-> Null, requires_action |-> FALSE,
   target_roles |-> << >>, target_users |-> << >>, cycle |-> 0]

HealthAlertHighForWarning(result, cycle) ==
  [type |-> "system",
   category |-> IF result.status = "critical" THEN "critical" ELSE "warning",
   severity |-> IF result.status = "critical" THEN "critical" ELSE "high",
   source |-> "system_health_monitor",
   source_id |-> result.checkName,
   message |-> IF result.error # NoError THEN result.error ELSE result.status,
   requires_action |-> (result.status = "critical"),
   target_roles |-> << 1, 2 >>,
   target_users |-> << >>,
   cycle |-> cycle]

\* The SmartAlert of createHealthAlert.  `cycle` is not a field of the
\* program's alert: it records which health-check cycle built it.
HealthAlert(result, cycle) ==
  [type |-> "system",
   category |-> IF result.status = "critical" THEN "critical" ELSE "warning",
   severity |-> IF result.status = "critical" THEN "critical" ELSE "medium",
   source |-> "system_health_monitor",
   source_id |-> result.checkName,
   message |-> IF result.error # NoError THEN result.error ELSE result.status,
   requires_action |-> (result.status = "critical"),
   target_roles |-> << 1, 2 >>,
   target_users |-> << >>,
   cycle |-> cycle]

getAlertIcon(type) ==
  CASE type = "system" -> "gear"
    [] type = "production" -> "factory"
    [] type = "quality" -> "check"
    [] type = "inventory" -> "package"
    [] type = "maintenance" -> "wrench"
    [] type = "security" -> "lock"
    [] OTHER -> "siren"

PriorityUrgentOrNormal(severity) ==
  IF severity = "critical" THEN "urgent" ELSE "normal"

Priority(severity) ==
  IF severity = "critical" THEN "urgent"
  ELSE IF severity = "high" THEN "high"
  ELSE "normal"

\* The recipients of sendAlertNotification in the order it dispatches to
\* them: the roles loop, then the users loop.
RECURSIVE Tagged(_, _)
Tagged(kind, ids) ==
  IF ids = << >> THEN << >>
  ELSE << [recipient_type |-> kind, recipient_id |-> Head(ids)] >> \o Tagged(kind, Tail(ids))

Recipients(alert) ==
  Tagged("role", alert.target_roles) \o Tagged("user", alert.target_users)

\* One call of sendToRole / sendToUser as the dispatcher records it.
Notification(alert, recipient) ==
  [recipient_type |-> recipient.recipient_type,
   recipient_id |-> recipient.recipient_id,
   type |-> alert.type,
   priority |-> Priority(alert.severity),
   sound |-> (alert.severity = "critical"),
   icon |-> getAlertIcon(alert.type),
   context_id |-> alert.source_id,
   cycle |-> alert.cycle]

\* Every payload sendAlertNotification builds for an alert when no dispatch
\* fails, in the order of the calls.
sendAlertNotification(alert) ==
  [k \in DOMAIN Recipients(alert) |-> Notification(alert, Recipients(alert)[k])]

\* The condition of processHealthCheckResult under which it calls
\* createHealthAlert.  `known` is lastHealthStatus at that point: the code
\* does not read it.
AlertConditionOnChange(result, known) ==
  /\ result.status \in {"critical", "warning"}
  /\ ~\E e \in DOMAIN known :
        /\ known[e].checkName = result.checkName
        /\ known[e].status = result.status

AlertCondition(result, known) == result.status \in {"critical", "warning"}

\* ------------------------------------------------------------ persistence
\* The three writes of the monitor are not implemented: the code builds
\* the row and goes on ("will be added to storage.ts later").
upsertHealthCheck(rows, result) == rows

insertAlert(rows, alert) == rows

\* cleanupOldData computes the cutoff date and deletes nothing.  Dates are
\* day numbers.
cleanupOldData(rows, now) ==
  LET cutoffDate == now - PERFORMANCE_RETENTION_DAYS
  IN  rows

\* -------------------------------------------------------------- exceptions
\* The try/catch blocks around a point of the code, innermost first.
DispatchFrames ==
  << "sendAlertNotification", "createSystemAlert", "createHealthAlert",
     "processHealthCheckResult", "performHealthChecks" >>

AwaitFrames == << "performHealthChecks" >>

Uncaught == "uncaught"

\* Whether the catch block of a function ends the exception there (it logs
\* and returns); every catch block of the monitor does.
RethrowsAll(frame) == FALSE

Catches(frame) == TRUE

RECURSIVE CaughtBy(_)
CaughtBy(frames) ==
  IF frames = << >> THEN Uncaught
  ELSE IF Catches(Head(frames)) THEN Head(frames)
  ELSE CaughtBy(Tail(frames))

\* What `await Promise.allSettled(checks)` hands to the loop: every settled
\* outcome, never an exception.
PromiseAll(settled) ==
  IF \E i \in DOMAIN settled : settled[i].status = "rejected"
    THEN [threw |-> TRUE, results |-> << >>]
    ELSE [threw |-> FALSE, results |-> settled]

PromiseAllSettled(settled) == [threw |-> FALSE, results |-> settled]

\* --------------------------------------------------------- lastHealthStatus
\* A Map keeps its keys in insertion order; set() on a key it holds
\* replaces the value in place.
MapHas(m, key) == \E i \in DOMAIN m : m[i].checkName = key

MapAppend(m, key, value) == Append(m, value)

MapSet(m, key, value) ==
  IF MapHas(m, key)
    THEN [i \in DOMAIN m |-> IF m[i].checkName = key THEN value ELSE m[i]]
    ELSE Append(m, value)

\* ------------------------------------------------------------------ state
\* No method has been called directly.
NoCall == [fn |-> Null]

\* A timer handle, as setInterval returns it: every call returns a new one.
\* The monitor arms its timers once per instance, so the number of the
\* instance tells its handles apart.  NoTimer is the null handle.
NoTimer == [kind |-> Null, owner |-> 0]

Timer(kind, owner) == [kind |-> kind, owner |-> owner]

\* No bulk operation of the orders table is awaited.
NoBulk == [kind |-> Null, ids |-> << >>]

VARIABLES
  systemHealthMonitor,  \* the module-level singleton: Null or "instance"
  constructed,          \* how many SystemHealthMonitor instances were constructed
  initPc,               \* where the un-awaited initialize() stands
  healthCheckInterval,  \* handle of the health-check timer, or NoTimer
  monitoringInterval,   \* handle of the general-monitoring timer, or NoTimer
  activeTimers,         \* the interval timers armed in the event loop
  lastHealthStatus,     \* the Map checkName -> HealthCheckResult
  cycles,               \* the health-check cycles started so far
  healthCheckRows,      \* storage: the SystemHealthCheck rows
  systemAlerts,         \* storage: the alert rows
  unhandled,            \* a tick callback's promise rejected
  anomalies,            \* non-nominal environment choices so far
  stopped,              \* stopMonitoring() has returned at least once
  call,                 \* the last direct call of one method: its input and output
  selectedCustomerId,   \* OrdersForm: the customer chosen in the form
  productionOrdersInForm, \* OrdersForm: the production-order rows
  quantityPreviews,     \* OrdersForm: the quantity previews, each under its row index
  previewRequests,      \* OrdersForm: preview fetches awaiting their response
  selectedOrders,       \* OrdersTabs: the ids of the selected orders
  filteredOrders,       \* OrdersTabs: the orders the table shows (a prop)
  isAdmin,              \* OrdersTabs: the user is an administrator (a prop)
  bulkOperation,        \* OrdersTabs: the bulk operation being awaited
  bulkCalls             \* OrdersTabs: the calls made to onBulkDelete / onBulkStatusChange

\* The state of the running monitor.
monitor ==
  << systemHealthMonitor, constructed, initPc, healthCheckInterval, monitoringInterval,
     activeTimers, lastHealthStatus, cycles, healthCheckRows, systemAlerts,
     unhandled, anomalies, stopped >>

\* The state of the order form and of the orders table of the client.
ordersForm ==
  << selectedCustomerId, productionOrdersInForm, quantityPreviews, previewRequests >>

ordersTabs == << selectedOrders, filteredOrders, isAdmin, bulkOperation, bulkCalls >>

client == << ordersForm, ordersTabs >>

vars == << monitor, call, client >>

timers == << healthCheckInterval, monitoringInterval, activeTimers >>

storage == << healthCheckRows, systemAlerts >>

Init ==
  /\ systemHealthMonitor = Null
  /\ constructed = 0
  /\ initPc = "none"
  /\ healthCheckInterval = NoTimer
  /\ monitoringInterval = NoTimer
  /\ activeTimers = {}
  /\ lastHealthStatus = << >>
  /\ cycles = << >>
  /\ healthCheckRows = << >>
  /\ systemAlerts = << >>
  /\ unhandled = FALSE
  /\ anomalies = 0
  /\ stopped = FALSE
  /\ call = NoCall
  /\ selectedCustomerId = ""
  /\ productionOrdersInForm = << >>
  /\ quantityPreviews = {}
  /\ previewRequests = {}
  /\ selectedOrders = << >>
  /\ filteredOrders = << >>
  /\ isAdmin = FALSE
  /\ bulkOperation = NoBulk
  /\ bulkCalls = << >>

\* ------------------------------------------------- construction, lifecycle
\* getSystemHealthMonitor: the first call constructs the monitor; the
\* constructor calls initialize() without awaiting it, and initialize runs
\* up to its first await.
AlwaysConstructs(current) == TRUE

\* The test of getSystemHealthMonitor: `if (!systemHealthMonitor)`.
NeedsInstance(current) == current = Null

getSystemHealthMonitor ==
  /\ IF NeedsInstance(systemHealthMonitor)
       THEN /\ systemHealthMonitor' = "instance"
            /\ constructed' = constructed + 1
            /\ initPc' = "loadAlertRules"
       ELSE UNCHANGED << systemHealthMonitor, constructed, initPc >>
  /\ UNCHANGED << timers, lastHealthStatus, cycles, storage,
                  unhandled, anomalies, stopped, call, client >>

\* initialize resumes after `await this.loadAlertRules()`.
initializeLoaded ==
  /\ initPc = "loadAlertRules"
  /\ initPc' = "createDefaultHealthChecks"
  /\ UNCHANGED << systemHealthMonitor, constructed, timers, lastHealthStatus, cycles,
                  storage, unhandled, anomalies, stopped, call, client >>

\* startMonitoring: both timers are armed and their handles stored.
startMonitoring ==
  /\ healthCheckInterval' = Timer("health", constructed)
  /\ monitoringInterval' = Timer("monitoring", constructed)
  /\ activeTimers' = activeTimers \cup { Timer("health", constructed),
                                         Timer("monitoring", constructed) }

\* initialize resumes after `await this.createDefaultHealthChecks()` and
\* calls startMonitoring.
initializeStart ==
  /\ initPc = "createDefaultHealthChecks"
  /\ initPc' = "done"
  /\ startMonitoring
  /\ UNCHANGED << systemHealthMonitor, constructed, lastHealthStatus, cycles,
                  storage, unhandled, anomalies, stopped, call, client >>

\* The timers of one kind that are armed in the event loop.
ArmedTimers(kind) == { t \in activeTimers : t.kind = kind }

\* The timer handles of the monitor and the timers of the event loop.
TimerState ==
  [healthCheckInterval |-> healthCheckInterval,
   monitoringInterval |-> monitoringInterval,
   activeTimers |-> activeTimers]

\* clearInterval(handle) and handle = null, for one of the two handles.
ClearHealth(t) ==
  [t EXCEPT !.activeTimers = @ \ {t.healthCheckInterval}, !.healthCheckInterval = NoTimer]

ClearMonitoring(t) ==
  [t EXCEPT !.activeTimers = @ \ {t.monitoringInterval}, !.monitoringInterval = NoTimer]

StopTimersElseIf(t) ==
  IF t.healthCheckInterval # NoTimer THEN ClearHealth(t)
  ELSE IF t.monitoringInterval # NoTimer THEN ClearMonitoring(t)
  ELSE t

\* The body of stopMonitoring: two independent ifs, each clearing the
\* handle it finds set.
StopTimers(t) ==
  LET t1 == IF t.healthCheckInterval # NoTimer THEN ClearHealth(t) ELSE t
  IN  IF t1.monitoringInterval # NoTimer THEN ClearMonitoring(t1) ELSE t1

SetTimers(t) ==
  /\ healthCheckInterval' = t.healthCheckInterval
  /\ monitoringInterval' = t.monitoringInterval
  /\ activeTimers' = t.activeTimers

stopMonitoring ==
  /\ systemHealthMonitor # Null
  /\ SetTimers(StopTimers(TimerState))
  /\ stopped' = TRUE
  /\ UNCHANGED << systemHealthMonitor, constructed, initPc, lastHealthStatus, cycles,
                  storage, unhandled, anomalies, call, client >>

\* shutdown: stopMonitoring inside a try/catch; nothing else is released.
shutdown ==
  /\ systemHealthMonitor # Null
  /\ SetTimers(StopTimers(TimerState))
  /\ stopped' = TRUE
  /\ UNCHANGED << systemHealthMonitor, constructed, initPc, lastHealthStatus, cycles,
                  storage, unhandled, anomalies, call, client >>

\* getSystemStatus: a synchronous read of the handles and of the Map.
StatusInverted ==
  [monitoring |-> (monitoringInterval = NoTimer),
   healthChecks |-> (healthCheckInterval = NoTimer),
   lastHealthChecks |-> lastHealthStatus,
   totalAlertRules |-> 0]

StatusFromLiveProbe ==
  [monitoring |-> (monitoringInterval # NoTimer),
   healthChecks |-> (healthCheckInterval # NoTimer),
   lastHealthChecks |-> << checkSystemHealth(NoThrow).value >>,
   totalAlertRules |-> 0]

SystemStatus ==
  [monitoring |-> (monitoringInterval # NoTimer),
   healthChecks |-> (healthCheckInterval # NoTimer),
   lastHealthChecks |-> lastHealthStatus,
   totalAlertRules |-> 0]

getSystemStatus ==
  /\ systemHealthMonitor # Null
  /\ UNCHANGED << systemHealthMonitor, constructed, initPc, timers, lastHealthStatus, cycles,
                  storage, unhandled, anomalies, stopped, call, client >>

\* ------------------------------------------------------ health-check cycle
\* A cycle of performHealthChecks.  pc: "probing" (awaiting
\* Promise.allSettled), "notifying" (suspended in a dispatch of the alert
\* for result idx, to recipient k), "done".  created: the alerts its
\* createSystemAlert calls reported as created; sent: the calls it made to
\* the notification dispatcher; failed: those that failed; processed: the
\* results whose
\* processHealthCheckResult has ended; errors: the catch blocks that logged.
NewCycle(id, memory, system) ==
  [id |-> id, pc |-> "probing",
   settled |-> << Pending, Pending, memory, system >>,
   idx |-> 0, alert |-> NoAlert, k |-> 0,
   created |-> << >>, sent |-> << >>, failed |-> {},
   processed |-> {}, errors |-> {}]

AllSettled(cy) == \A i \in DOMAIN cy.settled : cy.settled[i].status # "pending"

\* The part of the state a cycle's code reads and writes.
World ==
  [cache |-> lastHealthStatus, rows |-> healthCheckRows, alerts |-> systemAlerts,
   unhandled |-> unhandled]

Logged(cy, frame) == [cy EXCEPT !.errors = @ \cup {frame}]

RECURSIVE ProcessResults(_, _, _)
RECURSIVE SendFrom(_, _, _, _)
RECURSIVE Unwind(_, _, _, _)

\* The for loop of performHealthChecks from result i on, run up to the next
\* suspension: a rejected probe is logged and skipped; a fulfilled one goes
\* through processHealthCheckResult.
ProcessResults(cy, i, w) ==
  IF i > NumChecks
    THEN [cycle |-> [cy EXCEPT !.pc = "done", !.idx = 0, !.alert = NoAlert, !.k = 0],
          world |-> w]
  ELSE IF cy.settled[i].status # "fulfilled"
    THEN ProcessResults(Logged(cy, "rejected"), i + 1, w)
  ELSE
    LET result == cy.settled[i].value
        w1 == [w EXCEPT !.rows = upsertHealthCheck(@, result)]
    IN  IF AlertCondition(result, w1.cache)
          THEN \* createHealthAlert, createSystemAlert, sendAlertNotification
               LET alert == HealthAlert(result, cy.id)
                   w2 == [w1 EXCEPT !.alerts = insertAlert(@, alert)]
               IN  SendFrom([cy EXCEPT !.idx = i, !.alert = alert,
                                       !.created = Append(@, alert)], i, 1, w2)
          ELSE Unwind(cy, i, "returned", w1)

\* The dispatch loops of sendAlertNotification at recipient k: the call is
\* made and awaited, or the loops are over.
SendFrom(cy, i, k, w) ==
  IF k > Len(Recipients(cy.alert))
    THEN Unwind(cy, i, "returned", w)
    ELSE [cycle |-> [cy EXCEPT !.pc = "notifying", !.k = k,
                               !.sent = Append(@, Notification(cy.alert,
                                                   Recipients(cy.alert)[k]))],
          world |-> w]

\* The rest of the cycle after the alert path of result i ended: it
\* returned, or an exception was caught by the catch block of `frame`.
Unwind(cy, i, frame, w) ==
  IF frame \in {"returned", "sendAlertNotification", "createSystemAlert", "createHealthAlert"}
    THEN \* processHealthCheckResult goes on: lastHealthStatus.set
         ProcessResults(
           [(IF frame = "returned" THEN cy ELSE Logged(cy, frame))
              EXCEPT !.processed = @ \cup {i}],
           i + 1,
           [w EXCEPT !.cache = MapSet(@, cy.settled[i].value.checkName, cy.settled[i].value)])
  ELSE IF frame = "processHealthCheckResult"
    THEN ProcessResults([Logged(cy, frame) EXCEPT !.processed = @ \cup {i}], i + 1, w)
  ELSE IF frame = "performHealthChecks"
    THEN [cycle |-> [Logged(cy, frame) EXCEPT !.pc = "done", !.idx = 0,
                                              !.alert = NoAlert, !.k = 0],
          world |-> w]
  ELSE \* no catch block on the way: the tick callback's promise rejects
       [cycle |-> [cy EXCEPT !.pc = "done", !.idx = 0, !.alert = NoAlert, !.k = 0],
        world |-> [w EXCEPT !.unhandled = TRUE]]

\* performHealthChecks once probes have settled: it stays suspended until
\* all four have, then loops over the outcomes.
AfterSettle(cy, w) ==
  IF ~AllSettled(cy)
    THEN [cycle |-> cy, world |-> w]
    ELSE LET awaited == PromiseAllSettled(cy.settled)
         IN  IF awaited.threw
               THEN Unwind(cy, 0, CaughtBy(AwaitFrames), w)
               ELSE ProcessResults(cy, 1, w)

\* The step of cycle c leads to `next` (a cycle and a world).
Commit(c, next) ==
  /\ cycles' = [cycles EXCEPT ![c] = next.cycle]
  /\ lastHealthStatus' = next.world.cache
  /\ healthCheckRows' = next.world.rows
  /\ systemAlerts' = next.world.alerts
  /\ unhandled' = next.world.unhandled

\* A database query returns, or rejects with any value.
Outcomes == Thrown \cup {NoThrow}

\* process.memoryUsage(), process.uptime() return, or throw an Error.
HostOutcomes == {"Error", NoThrow}

DispatchesWhenIdle(started) == \A c \in DOMAIN started : started[c].pc = "done"

\* setInterval calls its callback at every period; the promise an async
\* callback returned at an earlier period is not looked at.
TimerDispatches(started) == TRUE

\* The health-check timer fires: performHealthChecks builds the `checks`
\* array, which starts all four probes.  The two database probes suspend in
\* their first query; the memory and liveness probes have no await and are
\* settled at once.
healthTick ==
  /\ ArmedTimers("health") # {}
  /\ TimerDispatches(cycles)
  /\ Len(cycles) < MaxHealthTicks
  /\ \E sample \in MemSamples, memThrown \in HostOutcomes, sysThrown \in HostOutcomes :
       LET cost == Cost(sample, NominalMemSample) + Cost(memThrown, NoThrow)
                     + Cost(sysThrown, NoThrow)
       IN  /\ anomalies + cost <= MaxAnomalies
           /\ anomalies' = anomalies + cost
           /\ cycles' = Append(cycles,
                          NewCycle(Len(cycles) + 1,
                                   checkSystemMemory(sample, memThrown),
                                   checkSystemHealth(sysThrown)))
  /\ UNCHANGED << systemHealthMonitor, constructed, initPc, timers, lastHealthStatus,
                  storage, unhandled, stopped, call, client >>

\* The queries of the two database probes have completed or failed and
\* Promise.allSettled resolves.  Until then the probes touch nothing but
\* their own locals, so their completions are taken as one step.  The
\* performance probe issues its second query only after the first returned;
\* its duration is the time of both.
databaseProbesSettle ==
  \E c \in DOMAIN cycles :
    /\ cycles[c].pc = "probing"
    /\ \E connThrown \in Outcomes, q1Thrown \in Outcomes, q2Thrown \in Outcomes :
         /\ q1Thrown # NoThrow => q2Thrown = NoThrow
         /\ \E connLatency \in IF connThrown = NoThrow THEN ConnLatencies
                                                       ELSE {NominalConnLatency},
               q1 \in IF q1Thrown = NoThrow THEN QueryLatencies
                                            ELSE {NominalQueryLatency},
               q2 \in IF q1Thrown = NoThrow /\ q2Thrown = NoThrow
                        THEN QueryLatencies ELSE {NominalQueryLatency} :
              LET cost ==
                    Cost(connLatency, NominalConnLatency) + Cost(connThrown, NoThrow)
                      + Cost(q1, NominalQueryLatency) + Cost(q1Thrown, NoThrow)
                      + Cost(q2, NominalQueryLatency) + Cost(q2Thrown, NoThrow)
                  performance == runDatabasePerformance(q1, q1Thrown, q2, q2Thrown)
              IN  /\ anomalies + cost <= MaxAnomalies
                  /\ anomalies' = anomalies + cost
                  /\ Commit(c, AfterSettle(
                       [cycles[c] EXCEPT
                          !.settled[1] = checkDatabaseConnection(connLatency, connThrown),
                          !.settled[2] = performance],
                       World))
    /\ UNCHANGED << systemHealthMonitor, constructed, initPc, timers, stopped, call, client >>

\* The dispatch a cycle is suspended in completes or fails.  A failure is
\* thrown at the await inside the try block of sendAlertNotification.
dispatchSettles ==
  \E c \in DOMAIN cycles :
    /\ cycles[c].pc = "notifying"
    /\ \E ok \in BOOLEAN :
         /\ anomalies + Cost(ok, TRUE) <= MaxAnomalies
         /\ anomalies' = anomalies + Cost(ok, TRUE)
         /\ IF ok
              THEN Commit(c, SendFrom(cycles[c], cycles[c].idx, cycles[c].k + 1, World))
              ELSE Commit(c, Unwind(
                     [cycles[c] EXCEPT !.failed = @ \cup {cycles[c].sent[Len(cycles[c].sent)]}],
                     cycles[c].idx, CaughtBy(DispatchFrames), World))
    /\ UNCHANGED << systemHealthMonitor, constructed, initPc, timers, stopped, call, client >>

\* ------------------------------------------------ general-monitoring cycle
MonitorPerformanceFrames == << "monitorPerformance", "performMonitoring" >>

\* The counting queries of the general-monitoring cycle.  The three methods
\* are stubs that return 0 ("temporary"); Counts is what they can return
\* once they query the storage.
checkOverdueOrders == 0

checkMachineStatus == 0

checkLowStockItems == 0

Counts == 0 .. MaxCount

\* What the three queries answer as the code stands.
ShippedCounts ==
  [overdueOrders |-> checkOverdueOrders, brokenMachines |-> checkMachineStatus,
   lowStockItems |-> checkLowStockItems]

\* The canned alerts of the general-monitoring cycle.
createProductionAlert(type, count) ==
  [NoAlert EXCEPT !.type = "production", !.category = "warning",
                  !.severity = "medium", !.source = "production_monitor",
                  !.source_id = type, !.message = count,
                  !.requires_action = TRUE, !.target_roles = << 2, 3 >>]

createInventoryAlert(type, count) ==
  [NoAlert EXCEPT !.type = "inventory", !.category = "warning",
                  !.severity = "medium", !.source = "inventory_monitor",
                  !.source_id = type, !.message = count,
                  !.requires_action = TRUE, !.target_roles = << 2, 4 >>]

MonitorProductionAlertsMachines(overdueOrders, brokenMachines) ==
  (IF overdueOrders > 0
     THEN << createProductionAlert("overdue_orders", overdueOrders) >> ELSE << >>)
  \o (IF brokenMachines > 0
        THEN << createProductionAlert("broken_machines", brokenMachines) >> ELSE << >>)

\* monitorProduction, after its two counting queries: the alerts it hands
\* to createSystemAlert.  The count of broken machines is read and dropped.
monitorProduction(overdueOrders, brokenMachines) ==
  IF overdueOrders > 0
    THEN << createProductionAlert("overdue_orders", overdueOrders) >>
    ELSE << >>

\* monitorInventory, after its counting query.
monitorInventory(lowStockItems) ==
  IF lowStockItems > 0
    THEN << createInventoryAlert("low_stock", lowStockItems) >>
    ELSE << >>

\* performMonitoring: four awaited steps, each of which catches what it
\* throws, so none cuts the list short.  steps: the steps in the order
\* they ran; alerts: the alerts handed to createSystemAlert; rows: the
\* performance-metric table after the cycle.
performMonitoring(counts, rows, now) ==
  LET s0 == [steps |-> << >>, alerts |-> << >>, rows |-> rows]
      s1 == [s0 EXCEPT !.steps = Append(@, "monitorPerformance")]
      s2 == [s1 EXCEPT !.steps = Append(@, "monitorProduction"),
                       !.alerts = @ \o monitorProduction(counts.overdueOrders,
                                                         counts.brokenMachines)]
      s3 == [s2 EXCEPT !.steps = Append(@, "monitorInventory"),
                       !.alerts = @ \o monitorInventory(counts.lowStockItems)]
      s4 == [s3 EXCEPT !.steps = Append(@, "cleanupOldData"),
                       !.rows = cleanupOldData(@, now)]
  IN  s4

\* createSystemAlert for each alert of a list, in order.
RECURSIVE InsertAlerts(_, _)
InsertAlerts(rows, alerts) ==
  IF alerts = << >> THEN rows
  ELSE InsertAlerts(insertAlert(rows, Head(alerts)), Tail(alerts))

\* The general-monitoring timer fires.  performMonitoring awaits only
\* promises that are already resolved (the counting queries are stubs that
\* return 0, nothing is written), so the whole cycle is one step.  The one
\* call that can throw is process.memoryUsage() in monitorPerformance.
monitoringTick ==
  /\ ArmedTimers("monitoring") # {}
  /\ TimerDispatches(cycles)
  /\ \E thrown \in HostOutcomes :
       unhandled' =
         (unhandled \/ (thrown # NoThrow /\ CaughtBy(MonitorPerformanceFrames) = Uncaught))
  /\ LET ran == performMonitoring(ShippedCounts, {}, 0)
     IN  systemAlerts' = InsertAlerts(systemAlerts, ran.alerts)
  /\ UNCHANGED << systemHealthMonitor, constructed, initPc, timers, lastHealthStatus, cycles,
                  healthCheckRows, anomalies, stopped, call, client >>

\* ------------------------------------------------------------ specification
Next ==
  \/ getSystemHealthMonitor
  \/ initializeLoaded
  \/ initializeStart
  \/ stopMonitoring
  \/ shutdown
  \/ getSystemStatus
  \/ healthTick
  \/ databaseProbesSettle
  \/ dispatchSettles
  \/ monitoringTick

Spec == Init /\ [][Next]_vars

\* ------------------------------------------------------------ direct calls
\* One method of the monitor called on its own with a chosen input, as a
\* test of that method calls it: `call` records the input and what the
\* method returned.  The running monitor is not involved, and a behaviour
\* makes one call: the methods called here keep nothing between calls.

\* Round-trip times of a query (ms).
ProbeTimes == 0 .. MaxProbeMs

\* Times of each of the two queries of the performance probe (ms): around
\* the halves of its thresholds, so that their sums fall on both sides.
QueryTimes == { t + e : t \in {0, 250, 500, 1000, 1500, 2000, 3000}, e \in {0, 1} }

\* process.memoryUsage(): heapUsed and heapTotal, heapTotal positive.
HeapUsed == 0 .. MaxHeap
HeapTotal == 1 .. MaxHeap

Severities == {"low", "medium", "high", "critical"}
AlertTypes == {"system", "production", "inventory"}
RoleLists == { << >>, << 1, 2 >>, << 2, 3 >>, << 2, 4 >> }
UserLists == { << >>, << 7 >>, << 7, 8 >> }

\* The alerts createSystemAlert can be handed.
SmartAlerts ==
  { [NoAlert EXCEPT !.type = t, !.severity = s, !.source_id = "source",
                    !.target_roles = r, !.target_users = u] :
      t \in AlertTypes, s \in Severities, r \in RoleLists, u \in UserLists }

\* A row of the performance-metric table, dated by its day number.
MetricRow(day) == [metric_name |-> "memory_usage", created_at |-> day]

\* The day a cleanup runs; the rows of the table are dated 0 .. Today.
Today == MaxAgeDays

callCheckDatabaseConnection ==
  /\ call = NoCall
  /\ \E duration \in ProbeTimes, thrown \in Outcomes :
       call' = [fn |-> "checkDatabaseConnection", duration |-> duration,
                thrown |-> thrown,
                returned |-> checkDatabaseConnection(duration, thrown)]
  /\ UNCHANGED << monitor, client >>

callCheckDatabasePerformance ==
  /\ call = NoCall
  /\ \E q1 \in QueryTimes, q2 \in QueryTimes,
        q1Thrown \in Outcomes, q2Thrown \in Outcomes :
       /\ q1Thrown # NoThrow => (q2Thrown = NoThrow /\ q2 = 0)
       /\ call' = [fn |-> "checkDatabasePerformance", q1 |-> q1, q2 |-> q2,
                   thrown |-> IF q1Thrown # NoThrow THEN q1Thrown ELSE q2Thrown,
                   returned |-> runDatabasePerformance(q1, q1Thrown, q2, q2Thrown)]
  /\ UNCHANGED << monitor, client >>

callCheckSystemMemory ==
  /\ call = NoCall
  /\ \E used \in HeapUsed, total \in HeapTotal, thrown \in HostOutcomes :
       call' = [fn |-> "checkSystemMemory", used |-> used, total |-> total,
                thrown |-> thrown,
                returned |-> checkSystemMemory(<< used, total >>, thrown)]
  /\ UNCHANGED << monitor, client >>

callCheckSystemHealth ==
  /\ call = NoCall
  /\ \E thrown \in HostOutcomes :
       call' = [fn |-> "checkSystemHealth", thrown |-> thrown,
                returned |-> checkSystemHealth(thrown)]
  /\ UNCHANGED << monitor, client >>

\* sendAlertNotification with a dispatcher that accepts every call.
callSendAlertNotification ==
  /\ call = NoCall
  /\ \E alert \in SmartAlerts :
       call' = [fn |-> "sendAlertNotification", alert |-> alert,
                returned |-> sendAlertNotification(alert)]
  /\ UNCHANGED << monitor, client >>

\* performMonitoring over a performance-metric table of one or two rows and
\* over the answers of the three counting queries.
callPerformMonitoring ==
  /\ call = NoCall
  /\ \E d1 \in 0 .. Today, d2 \in 0 .. Today,
        overdue \in Counts, broken \in Counts, low \in Counts :
       LET rows == { MetricRow(d1), MetricRow(d2) }
           counts == [overdueOrders |-> overdue, brokenMachines |-> broken,
                      lowStockItems |-> low]
           ran == performMonitoring(counts, rows, Today)
       IN  call' = [fn |-> "performMonitoring", rows |-> rows, now |-> Today,
                    counts |-> counts, steps |-> ran.steps,
                    alerts |-> ran.alerts, returned |-> ran.rows]
  /\ UNCHANGED << monitor, client >>

\* ------------------------------------------------------------- assistant
\* AdvancedOpenAIService.  A user id is a number; 0 stands for an id that
\* is falsy (0 or not given).
NoUser == 0

UserIds == {NoUser, 7}

\* The actions the switch of handleDatabaseOperation knows.
KnownActions ==
  {"add_customer", "add_order", "add_production_order", "add_machine",
   "update_order", "update_machine", "delete_customer", "delete_order",
   "get_orders", "get_machines", "get_production_stats"}

\* What the intent analysis can name as action: a known one, "none", or
\* anything else.
Actions == KnownActions \cup {"none", "something_else"}

\* The storage operation handler of an action: the switch and its default.
HandlerOf(action) ==
  CASE action = "add_customer" -> "createCustomer"
    [] action = "add_order" -> "createOrder"
    [] action = "add_production_order" -> "createJobOrder"
    [] action = "add_machine" -> "createMachine"
    [] action = "update_order" -> "updateOrder"
    [] action = "update_machine" -> "updateMachine"
    [] action = "delete_customer" -> "deleteCustomer"
    [] action = "delete_order" -> "deleteOrder"
    [] action = "get_orders" -> "getOrders"
    [] action = "get_machines" -> "getMachines"
    [] action = "get_production_stats" -> "getProductionStats"
    [] OTHER -> "handleCustomQuery"

\* The handlers that only read the storage.
ReadOnlyHandlers == {"getOrders", "getMachines", "getProductionStats", "handleCustomQuery"}

Intents ==
  [action : Actions, requiresDatabase : BOOLEAN, requestsReport : BOOLEAN]

\* The intent analyzeUserIntent falls back to.
DefaultIntent ==
  [action |-> "none", requiresDatabase |-> FALSE, requestsReport |-> FALSE]

\* The completion asked for the intent: it fails (the request throws, or
\* its content is not JSON) or it carries an intent.
IntentReplies == [failed : BOOLEAN, intent : Intents]

AnalyzeUserIntentRethrows(reply) == [threw |-> reply.failed, intent |-> reply.intent]

\* analyzeUserIntent: its catch returns the default intent.
analyzeUserIntent(reply) ==
  [threw |-> FALSE, intent |-> IF reply.failed THEN DefaultIntent ELSE reply.intent]

\* How a storage operation handler ends: it reports success, it reports
\* failure, or it rejects (its catch reads error.message of a thrown
\* null).  handleCustomQuery has no such read.
HandlerEnds(handler) ==
  IF handler = "handleCustomQuery" THEN {"success", "failure"}
  ELSE {"success", "failure", "rejects"}

\* The surroundings of one message: how the handler ends, the answer of
\* shouldSendNotification, whether the notification and learning modules
\* fail, how the general completion and the report generator end.
Surroundings ==
  [handler : {"success", "failure", "rejects"}, shouldSend : BOOLEAN,
   notificationFails : BOOLEAN, learningFails : BOOLEAN,
   completion : {"content", "empty", "throws"}, reportFails : BOOLEAN]

\* recordLearningData and sendIntelligentNotification: each catches the
\* failure of its module and returns.
recordLearningData(fails) == [threw |-> FALSE]

sendIntelligentNotification(fails) == [threw |-> FALSE]

\* One call of recordLearningData, as the learning module sees it.
Learned(actionType, success) == [actionType |-> actionType, success |-> success]

NotifiesWhateverTheResult(success, shouldSend) == shouldSend

\* The test before the notification:
\* `result.success && (await this.shouldSendNotification(intent.action))`.
Notifies(success, shouldSend) == success /\ shouldSend

\* handleDatabaseOperation.  ops: the handlers it executed; learning: its
\* calls of recordLearningData; notifications: its calls of
\* sendIntelligentNotification; returned: the string it resolves to.
handleDatabaseOperation(intent, userId, env) ==
  LET handler == HandlerOf(intent.action)
      success == env.handler = "success"
      records == userId # NoUser
      learnt == IF records THEN << Learned(intent.action, success) >> ELSE << >>
      learnThrew == records /\ recordLearningData(env.learningFails).threw
      notifies == ~learnThrew /\ Notifies(success, env.shouldSend)
      notified == IF notifies THEN << intent.action >> ELSE << >>
      notifyThrew == notifies /\ sendIntelligentNotification(env.notificationFails).threw
      caught == env.handler = "rejects" \/ learnThrew \/ notifyThrew
  IN  IF caught
        THEN [ops |-> << handler >>,
              learning |-> (IF env.handler = "rejects" THEN << >> ELSE learnt)
                             \o (IF records THEN << Learned(intent.action, FALSE) >>
                                 ELSE << >>),
              notifications |-> IF env.handler = "rejects" THEN << >> ELSE notified,
              returned |-> "operation error", threw |-> FALSE]
        ELSE [ops |-> << handler >>, learning |-> learnt,
              notifications |-> notified,
              returned |-> "result.message", threw |-> FALSE]

\* The catch of processMessage: learning is recorded as a failure when a
\* user id is given, and handleError picks the string.
handleError(routes, ops, learning, notifications, userId) ==
  [routes |-> routes, ops |-> ops,
   learning |-> learning \o (IF userId # NoUser
                               THEN << Learned("general_query", FALSE) >> ELSE << >>),
   notifications |-> notifications, returned |-> "service error", rejected |-> FALSE]

\* processMessage.  routes: the routes it entered, in order.
processMessage(reply, userId, env) ==
  LET analysed == analyzeUserIntent(reply)
      intent == analysed.intent
      db == handleDatabaseOperation(intent, userId, env)
  IN  IF analysed.threw THEN handleError(<< >>, << >>, << >>, << >>, userId)
      ELSE IF intent.requiresDatabase
        THEN IF db.threw
               THEN handleError(<< "database" >>, db.ops, db.learning,
                                db.notifications, userId)
               ELSE [routes |-> << "database" >>, ops |-> db.ops,
                     learning |-> db.learning, notifications |-> db.notifications,
                     returned |-> db.returned, rejected |-> FALSE]
      ELSE IF intent.requestsReport
        THEN [routes |-> << "report" >>, ops |-> << >>, learning |-> << >>,
              notifications |-> << >>,
              returned |-> IF env.reportFails THEN "report error" ELSE "report",
              rejected |-> FALSE]
      ELSE IF env.completion = "throws"
        THEN handleError(<< "general" >>, << >>, << >>, << >>, userId)
      ELSE LET learnt == IF userId # NoUser
                           THEN << Learned("general_query", TRUE) >> ELSE << >>
           IN  IF userId # NoUser /\ recordLearningData(env.learningFails).threw
                 THEN handleError(<< "general" >>, << >>, learnt, << >>, userId)
                 ELSE [routes |-> << "general" >>, ops |-> << >>, learning |-> learnt,
                       notifications |-> << >>,
                       returned |-> IF env.completion = "empty" THEN "greeting"
                                    ELSE "completion",
                       rejected |-> FALSE]

callProcessMessage ==
  /\ call = NoCall
  /\ \E reply \in IntentReplies, userId \in UserIds, env \in Surroundings :
       /\ reply.failed => reply.intent = DefaultIntent
       /\ env.handler \in HandlerEnds(HandlerOf(reply.intent.action))
       /\ call' = [fn |-> "processMessage", reply |-> reply, userId |-> userId,
                   env |-> env, returned |-> processMessage(reply, userId, env)]
  /\ UNCHANGED << monitor, client >>

callHandleDatabaseOperation ==
  /\ call = NoCall
  /\ \E intent \in Intents, userId \in UserIds, env \in Surroundings :
       /\ intent.requiresDatabase
       /\ env.handler \in HandlerEnds(HandlerOf(intent.action))
       /\ env.completion = "content" /\ ~env.reportFails
       /\ call' = [fn |-> "handleDatabaseOperation", intent |-> intent,
                   userId |-> userId, env |-> env,
                   returned |-> handleDatabaseOperation(intent, userId, env)]
  /\ UNCHANGED << monitor, client >>

CallNext ==
  \/ callCheckDatabaseConnection
  \/ callCheckDatabasePerformance
  \/ callCheckSystemMemory
  \/ callCheckSystemHealth
  \/ callSendAlertNotification
  \/ callPerformMonitoring
  \/ callProcessMessage
  \/ callHandleDatabaseOperation

CallSpec == Init /\ [][CallNext]_vars

\* ------------------------------------------------------------- OrdersForm
\* The order form of the client.  A production-order row holds the product
\* and the base quantity the user chose; 0 stands for the null of a new row
\* and for a cleared quantity field, both falsy.  Rows are numbered from 1
\* here, from 0 in the program.
Customers == {"customer1", "customer2"}

CustomerProducts == {1, 2}

Quantities == {5, 7}

NewRow == [customer_product_id |-> 0, quantity_kg |-> 0]

\* A preview as the server computed it: it is kept under the row index it
\* was requested for and names the product and quantity it was computed
\* for.
Preview(index, productId, quantity) ==
  [index |-> index, customer_product_id |-> productId, quantity_kg |-> quantity]

\* `delete updated[index]` and `{...prev, [index]: preview}`.
DeletePreview(previews, index) == { p \in previews : p.index # index }

SetPreview(previews, preview) ==
  DeletePreview(previews, preview.index) \cup {preview}

\* prev.filter((_, i) => i !== index)
RemoveAt(rows, index) ==
  [i \in 1 .. Len(rows) - 1 |-> IF i < index THEN rows[i] ELSE rows[i + 1]]

addProductionOrder ==
  /\ Len(productionOrdersInForm) < MaxRows
  /\ productionOrdersInForm' = Append(productionOrdersInForm, NewRow)
  /\ UNCHANGED << selectedCustomerId, quantityPreviews, previewRequests >>
  /\ UNCHANGED << monitor, call, ordersTabs >>

\* removeProductionOrder: the row is filtered out, the later rows move up
\* by one, and the preview under the removed index is deleted.
removeProductionOrder ==
  /\ \E index \in DOMAIN productionOrdersInForm :
       /\ productionOrdersInForm' = RemoveAt(productionOrdersInForm, index)
       /\ quantityPreviews' = DeletePreview(quantityPreviews, index)
  /\ UNCHANGED << selectedCustomerId, previewRequests >>
  /\ UNCHANGED << monitor, call, ordersTabs >>

\* updateProductionOrder for the product or the quantity of a row: the row
\* is updated, and if it then has a product and a positive quantity
\* updateQuantityPreview sends the preview request and waits for it.
updateProductionOrder ==
  /\ \E index \in DOMAIN productionOrdersInForm,
        field \in {"customer_product_id", "quantity_kg"} :
       \E value \in IF field = "customer_product_id" THEN CustomerProducts
                    ELSE Quantities \cup {0} :
         LET prodOrder == productionOrdersInForm[index]
             productId == IF field = "customer_product_id" THEN value
                          ELSE prodOrder.customer_product_id
             quantity == IF field = "quantity_kg" THEN value ELSE prodOrder.quantity_kg
             request == Preview(index, productId, quantity)
         IN  /\ productionOrdersInForm' =
                  [productionOrdersInForm EXCEPT ![index][field] = value]
             /\ IF productId # 0 /\ quantity > 0
                  THEN /\ Cardinality(previewRequests \cup {request}) <= MaxRequests
                       /\ previewRequests' = previewRequests \cup {request}
                  ELSE UNCHANGED previewRequests
  /\ UNCHANGED << selectedCustomerId, quantityPreviews >>
  /\ UNCHANGED << monitor, call, ordersTabs >>

\* The response of a preview request arrives and updateQuantityPreview
\* resumes: a preview is stored under the index of the request, a failed
\* request (null) changes nothing.
previewResponds ==
  /\ \E request \in previewRequests, ok \in BOOLEAN :
       /\ previewRequests' = previewRequests \ {request}
       /\ quantityPreviews' =
            IF ok THEN SetPreview(quantityPreviews, request) ELSE quantityPreviews
  /\ UNCHANGED << selectedCustomerId, productionOrdersInForm >>
  /\ UNCHANGED << monitor, call, ordersTabs >>

\* The customer Select changes: the customer is stored and the rows are
\* reset.
customerChanges ==
  /\ \E value \in Customers : selectedCustomerId' = value
  /\ productionOrdersInForm' = << >>
  /\ UNCHANGED << quantityPreviews, previewRequests >>
  /\ UNCHANGED << monitor, call, ordersTabs >>

OrdersFormNext ==
  \/ addProductionOrder
  \/ removeProductionOrder
  \/ updateProductionOrder
  \/ previewResponds
  \/ customerChanges

OrdersFormSpec == Init /\ [][OrdersFormNext]_vars

\* ------------------------------------------------------------- OrdersTabs
\* The orders tab of the client.  filteredOrders is a prop: the parent
\* filters the orders by the search term and the status filter, and hands
\* the tab the result at every render.
OrderIds == 1 .. MaxOrders

Statuses == {"for_production", "on_hold", "pending", "completed"}

\* The ids of a list of orders.
Ids(orders) == { orders[i] : i \in DOMAIN orders }

\* A set of orders as the list the parent hands down, in the order of the
\* full list.
RECURSIVE Listed(_)
Listed(orders) ==
  IF orders = {} THEN << >>
  ELSE LET first == CHOOSE o \in orders : \A other \in orders : o <= other
       IN  << first >> \o Listed(orders \ {first})

\* prev.filter((id) => id !== orderId)
Without(selection, orderId) == SelectSeq(selection, LAMBDA id : id # orderId)

\* The parent renders the tab again with other props: another search term
\* or status filter, orders added or deleted, another user.
render ==
  /\ \E shown \in SUBSET OrderIds : filteredOrders' = Listed(shown)
  /\ isAdmin' \in BOOLEAN
  /\ UNCHANGED << selectedOrders, bulkOperation, bulkCalls >>
  /\ UNCHANGED << monitor, call, ordersForm >>

\* handleOrderSelect, called by the checkbox of a row the table shows with
\* the new state of the checkbox: the id is appended, or filtered out.
handleOrderSelect ==
  /\ \E orderId \in Ids(filteredOrders) :
       LET selected == orderId \notin Ids(selectedOrders)
       IN  selectedOrders' = IF selected THEN Append(selectedOrders, orderId)
                             ELSE Without(selectedOrders, orderId)
  /\ UNCHANGED << filteredOrders, isAdmin, bulkOperation, bulkCalls >>
  /\ UNCHANGED << monitor, call, ordersForm >>

\* handleSelectAll: the ids of filteredOrders, or nothing.
handleSelectAll ==
  /\ \E selected \in BOOLEAN :
       selectedOrders' = IF selected THEN filteredOrders ELSE << >>
  /\ UNCHANGED << filteredOrders, isAdmin, bulkOperation, bulkCalls >>
  /\ UNCHANGED << monitor, call, ordersForm >>

\* A call of onBulkDelete or onBulkStatusChange, with what held when it was
\* made, and, once it has settled, the selection before and after.
BulkCall(kind, confirmed) ==
  [kind |-> kind, ids |-> selectedOrders, admin |-> isAdmin,
   confirmed |-> confirmed, outcome |-> "pending",
   before |-> << >>, after |-> << >>]

\* handleBulkDelete: it returns unless the selection is non-empty and the
\* user is an administrator, asks for confirmation, and calls onBulkDelete
\* with the selection.
handleBulkDelete ==
  /\ bulkOperation = NoBulk
  /\ Len(bulkCalls) < MaxBulkCalls
  /\ \E confirmed \in BOOLEAN :
       IF Len(selectedOrders) = 0 \/ ~isAdmin \/ ~confirmed
         THEN UNCHANGED << bulkOperation, bulkCalls >>
         ELSE /\ bulkOperation' = [kind |-> "delete", ids |-> selectedOrders]
              /\ bulkCalls' = Append(bulkCalls, BulkCall("delete", confirmed))
  /\ UNCHANGED << selectedOrders, filteredOrders, isAdmin >>
  /\ UNCHANGED << monitor, call, ordersForm >>

\* handleBulkStatusChange: it returns unless the selection is non-empty,
\* and calls onBulkStatusChange with the selection.
handleBulkStatusChange ==
  /\ bulkOperation = NoBulk
  /\ Len(bulkCalls) < MaxBulkCalls
  /\ \E status \in Statuses :
       IF Len(selectedOrders) = 0
         THEN UNCHANGED << bulkOperation, bulkCalls >>
         ELSE /\ bulkOperation' = [kind |-> status, ids |-> selectedOrders]
              /\ bulkCalls' = Append(bulkCalls, BulkCall(status, FALSE))
  /\ UNCHANGED << selectedOrders, filteredOrders, isAdmin >>
  /\ UNCHANGED << monitor, call, ordersForm >>

\* The awaited bulk operation resolves, and the selection is cleared, or
\* rejects, and the catch logs.
bulkSettles ==
  /\ bulkOperation # NoBulk
  /\ \E ok \in BOOLEAN :
       /\ selectedOrders' = IF ok THEN << >> ELSE selectedOrders
       /\ bulkCalls' =
            [bulkCalls EXCEPT ![Len(bulkCalls)] =
               [@ EXCEPT !.outcome = IF ok THEN "succeeded" ELSE "failed",
                         !.before = selectedOrders,
                         !.after = selectedOrders']]
  /\ bulkOperation' = NoBulk
  /\ UNCHANGED << filteredOrders, isAdmin >>
  /\ UNCHANGED << monitor, call, ordersForm >>

OrdersTabsNext ==
  \/ render
  \/ handleOrderSelect
  \/ handleSelectAll
  \/ handleBulkDelete
  \/ handleBulkStatusChange
  \/ bulkSettles

OrdersTabsSpec == Init /\ [][OrdersTabsNext]_vars

\* ================================================================== claims
\* Vocabulary of the claims.
FulfilledIn(cy) == { i \in DOMAIN cy.settled : cy.settled[i].status = "fulfilled" }

RejectedIn(cy) == { i \in DOMAIN cy.settled : cy.settled[i].status = "rejected" }

\* The results of a cycle that call for an alert.
AlertingIn(cy) ==
  { i \in FulfilledIn(cy) : cy.settled[i].value.status \in {"critical", "warning"} }

\* The dispatcher calls a cycle made for one of its alerts, in order.
SentFor(cy, alert) ==
  SelectSeq(cy.sent, LAMBDA n : n.context_id = alert.source_id)

\* The calls sendAlertNotification owes an alert: one per recipient.
Owed(alert) ==
  [k \in DOMAIN Recipients(alert) |-> Notification(alert, Recipients(alert)[k])]

\* The alert rows storage holds for a cycle.
PersistedFor(c) == { j \in DOMAIN systemAlerts : systemAlerts[j].cycle = c }

InFlight(cy) == cy.pc # "done"

\* C1: in a health-check cycle all four probes are started before
\* Promise.allSettled is awaited, and a probe that rejects does not keep the
\* others from being processed: while the cycle awaits, nothing is processed
\* yet; while it is suspended in the alert of result idx, exactly the
\* fulfilled results before idx have been processed; when it is done,
\* exactly the fulfilled results have been processed and only the rejected
\* ones were skipped.
C1_ProbeFailuresIsolated ==
  \A c \in DOMAIN cycles :
    LET cy == cycles[c] IN
      /\ DOMAIN cy.settled = 1 .. NumChecks
      /\ cy.pc = "probing" => cy.processed = {}
      /\ cy.pc = "notifying" =>
           /\ cy.idx \in FulfilledIn(cy)
           /\ cy.processed = { i \in FulfilledIn(cy) : i < cy.idx }
      /\ cy.pc = "done" =>
           /\ cy.processed = FulfilledIn(cy)
           /\ ("rejected" \in cy.errors) = (RejectedIn(cy) # {})

\* C1 witness: a finished cycle in which one probe rejected and the other
\* three were processed.
C1_Witness ==
  \E c \in DOMAIN cycles :
    /\ cycles[c].pc = "done"
    /\ Cardinality(RejectedIn(cycles[c])) = 1
    /\ Cardinality(cycles[c].processed) = 3

\* C2: each critical or warning result of a health-check cycle results in
\* exactly one persisted alert, and a cycle with only healthy results in
\* none: once a cycle is done, storage holds as many alert rows of that
\* cycle as the cycle had critical or warning results.
C2_OnePersistedAlertPerResult ==
  \A c \in DOMAIN cycles :
    cycles[c].pc = "done" =>
      Cardinality(PersistedFor(c)) = Cardinality(AlertingIn(cycles[c]))

\* C3: for every alert passed to sendAlertNotification there is exactly one
\* dispatch attempt per entry of target_roles and of target_users, whether
\* or not earlier dispatches succeeded: once the alert's notification is
\* over, the dispatcher has received exactly the calls owed to it.
C3_OneDispatchPerRecipient ==
  \A c \in DOMAIN cycles :
    \A a \in DOMAIN cycles[c].created :
      LET cy == cycles[c]
          alert == cy.created[a]
      IN  ~(cy.pc = "notifying" /\ cy.alert = alert) =>
            SentFor(cy, alert) = Owed(alert)

\* C4: when the dispatch to one recipient fails, the dispatches to all the
\* remaining recipients of the same alert are still attempted: every
\* recipient after a failed one has received its call by the time the
\* cycle is done.
C4_FailureDoesNotBlockOthers ==
  \A c \in DOMAIN cycles :
    \A a \in DOMAIN cycles[c].created :
      LET cy == cycles[c]
          alert == cy.created[a]
      IN  (cy.pc = "done" /\ \E n \in cy.failed : n.context_id = alert.source_id) =>
            \A k \in DOMAIN Owed(alert) :
              \E m \in DOMAIN cy.sent : cy.sent[m] = Owed(alert)[k]

\* C5: createSystemAlert persists the alert row before it calls
\* sendAlertNotification, and a notification failure leaves the row in
\* place: every alert that reached sendAlertNotification (its dispatches
\* pending, done or failed) has its row in storage.
C5_PersistedBeforeNotified ==
  \A c \in DOMAIN cycles :
    \A a \in DOMAIN cycles[c].created :
      \E j \in DOMAIN systemAlerts : systemAlerts[j] = cycles[c].created[a]

\* C6: no exception raised inside a health-check or general-monitoring tick
\* leaves the tick callback, and a failed tick leaves the timers as they
\* were: while the monitor is started and not stopped both timers are
\* armed, whatever failed in the cycles so far.
C6_TickFailuresContained ==
  /\ ~unhandled
  /\ (initPc = "done" /\ ~stopped) =>
       /\ healthCheckInterval # NoTimer
       /\ monitoringInterval # NoTimer
       /\ activeTimers = {healthCheckInterval, monitoringInterval}

\* C6 witness: a first cycle that logged a failure is followed by a second
\* cycle that processed all four results, with the timers still armed.
C6_Witness ==
  /\ Len(cycles) = 2
  /\ cycles[1].pc = "done" /\ cycles[1].errors # {}
  /\ cycles[2].pc = "done" /\ cycles[2].processed = 1 .. NumChecks
  /\ ArmedTimers("health") # {} /\ ArmedTimers("monitoring") # {}

\* C7: stopMonitoring is idempotent: from every state the monitor reaches,
\* one call leaves both handles null and no timer armed, and a second call
\* right after it changes nothing.
C7_StopIdempotent ==
  LET once == StopTimers(TimerState)
      twice == StopTimers(once)
  IN  /\ once.healthCheckInterval = NoTimer
      /\ once.monitoringInterval = NoTimer
      /\ once.activeTimers = {}
      /\ twice = once

\* C7 witness: stopMonitoring has been called on a started monitor (both
\* timers were armed and are cleared) and can be called again.
C7_Witness ==
  /\ systemHealthMonitor # Null
  /\ initPc = "done"
  /\ stopped
  /\ TimerState = StopTimers(TimerState)
  /\ activeTimers = {}

\* C8: stopMonitoring()/shutdown() cancels all future timer firings but not
\* a cycle already started; no new cycle starts after stop has returned.
C8_NoCycleStartsAfterStop ==
  [][stopped => Len(cycles') = Len(cycles)]_vars

\* C9 as stated: getSystemStatus called before the first health-check cycle
\* completes reports the timers as armed (if started) and an empty
\* last-known-status collection.
C9_EmptyUntilFirstCycleCompletes ==
  (\A c \in DOMAIN cycles : InFlight(cycles[c])) =>
    /\ SystemStatus.lastHealthChecks = << >>
    /\ (initPc = "done" /\ ~stopped) =>
         (SystemStatus.monitoring /\ SystemStatus.healthChecks)

\* C9 amended: getSystemStatus called before any result of a health-check
\* cycle has been processed reports the timers as armed (if the monitor is
\* started and not stopped) and an empty last-known-status collection.
C9_EmptyUntilFirstResultProcessed ==
  (\A c \in DOMAIN cycles : cycles[c].processed = {}) =>
    /\ SystemStatus.lastHealthChecks = << >>
    /\ SystemStatus.totalAlertRules = 0
    /\ (initPc = "done" /\ ~stopped) =>
         (SystemStatus.monitoring /\ SystemStatus.healthChecks)

\* C9 witness: the monitor is started, its first cycle is suspended in the
\* notification of its first result, and nothing has been processed.
C9_Witness ==
  /\ initPc = "done" /\ ~stopped
  /\ Len(cycles) = 1
  /\ cycles[1].pc = "notifying"
  /\ cycles[1].processed = {}
  /\ SystemStatus.healthChecks /\ SystemStatus.monitoring
  /\ SystemStatus.lastHealthChecks = << >>

\* C10: end to end, after one health-check cycle in which the Database
\* Connection probe reports a 7-second round-trip (the other probes
\* healthy): storage holds a SystemHealthCheck row "Database Connection"
\* with status critical, exactly one alert exists, with severity critical,
\* type system and target_roles [1,2], and the dispatcher recorded exactly
\* 2 calls, one per role and none to a user.
EndToEndScenario(cy) ==
  /\ cy.pc = "done"
  /\ FulfilledIn(cy) = 1 .. NumChecks
  /\ cy.settled[1].value.duration = 7000
  /\ AlertingIn(cy) = {1}

C10_EndToEnd ==
  \A c \in DOMAIN cycles :
    EndToEndScenario(cycles[c]) =>
      /\ \E j \in DOMAIN healthCheckRows :
           /\ healthCheckRows[j].checkName = CheckNames[1]
           /\ healthCheckRows[j].status = "critical"
      /\ Cardinality(PersistedFor(c)) = 1
      /\ \A j \in PersistedFor(c) :
           /\ systemAlerts[j].severity = "critical"
           /\ systemAlerts[j].type = "system"
           /\ systemAlerts[j].target_roles = << 1, 2 >>
      /\ Len(cycles[c].sent) = 2
      /\ \A m \in DOMAIN cycles[c].sent :
           /\ cycles[c].sent[m].recipient_type = "role"
           /\ cycles[c].sent[m].recipient_id = m

\* C11: the Database Connection probe classifies a successful round-trip by
\* its duration d: critical if d > 5000 ms, warning if 1000 < d <= 5000 ms,
\* healthy if d <= 1000 ms, and reports d as the result's duration.
C11_ConnectionClassifiedByDuration ==
  (call.fn = "checkDatabaseConnection" /\ call.thrown = NoThrow) =>
    LET d == call.duration
        result == call.returned.value
    IN  /\ call.returned.status = "fulfilled"
        /\ result.checkName = "Database Connection"
        /\ result.duration = d
        /\ d > 5000 => result.status = "critical"
        /\ (1000 < d /\ d <= 5000) => result.status = "warning"
        /\ d <= 1000 => result.status = "healthy"

\* C11 witness: a successful round-trip of exactly 5000 ms, classified in
\* the lower class, warning.
C11_Witness ==
  /\ call.fn = "checkDatabaseConnection"
  /\ call.thrown = NoThrow
  /\ call.duration = 5000
  /\ call.returned.value.status = "warning"

\* C12: the Database Performance probe classifies by its measured duration
\* d, the time of both of its queries together: it reports warning only if
\* 500 < d <= 2000 ms, and when both queries return it reports critical if
\* d > 2000 ms, warning if 500 < d <= 2000 ms and healthy if d <= 500 ms.
C12_PerformanceClassifiedByBothQueries ==
  call.fn = "checkDatabasePerformance" =>
    LET d == call.q1 + call.q2
        result == call.returned.value
    IN  /\ (call.returned.status = "fulfilled" /\ result.status = "warning") =>
             (500 < d /\ d <= 2000)
        /\ call.thrown = NoThrow =>
             /\ call.returned.status = "fulfilled"
             /\ result.checkName = "Database Performance"
             /\ result.duration = d
             /\ d > 2000 => result.status = "critical"
             /\ (500 < d /\ d <= 2000) => result.status = "warning"
             /\ d <= 500 => result.status = "healthy"

\* C12 witness: two queries of 1500 ms each, both returning: the measured
\* duration is 3000 ms and the probe reports critical, not warning.
C12_Witness ==
  /\ call.fn = "checkDatabasePerformance"
  /\ call.thrown = NoThrow
  /\ call.q1 = 1500 /\ call.q2 = 1500
  /\ call.returned.value.duration = 3000
  /\ call.returned.value.status = "critical"

\* C13: the Memory Usage probe classifies the heap usage percentage
\* p = used / total * 100 as critical if p > 95, warning if 80 < p <= 95 and
\* healthy otherwise, for every sampled pair of used and total heap
\* (p > x is used * 100 > x * total, total being positive).
C13_MemoryClassifiedByPercent ==
  (call.fn = "checkSystemMemory" /\ call.thrown = NoThrow) =>
    LET used == call.used
        total == call.total
        result == call.returned.value
    IN  /\ call.returned.status = "fulfilled"
        /\ result.checkName = "Memory Usage"
        /\ used * 100 > 95 * total => result.status = "critical"
        /\ (used * 100 > 80 * total /\ used * 100 <= 95 * total) =>
             result.status = "warning"
        /\ used * 100 <= 80 * total => result.status = "healthy"

\* C13 witness: a sample at exactly 95% of a heap that is not 100 units,
\* classified warning.
C13_Witness ==
  /\ call.fn = "checkSystemMemory"
  /\ call.thrown = NoThrow
  /\ call.used = 19 /\ call.total = 20
  /\ call.returned.value.status = "warning"

\* The direct calls that are calls of a probe.
ProbeCalls ==
  { "checkDatabaseConnection", "checkDatabasePerformance",
    "checkSystemMemory", "checkSystemHealth" }

\* C14: for each of the four probes, a forced failure inside the probe
\* yields a result, not a rejection, whose status is critical (Database
\* Connection, Database Performance, System Health API) or unknown (Memory
\* Usage) and whose error field is non-empty; without a failure the System
\* Health API probe is always healthy.
C14_ForcedFailureYieldsResult ==
  call.fn \in ProbeCalls =>
    /\ call.thrown # NoThrow =>
         /\ call.returned.status = "fulfilled"
         /\ call.returned.value.status =
              (IF call.fn = "checkSystemMemory" THEN "unknown" ELSE "critical")
         /\ call.returned.value.error # NoError
    /\ (call.fn = "checkSystemHealth" /\ call.thrown = NoThrow) =>
         /\ call.returned.status = "fulfilled"
         /\ call.returned.value.status = "healthy"

\* C15: the alert synthesized for a critical or warning health-check result
\* has type system, severity critical iff the status is critical and medium
\* otherwise, category equal to the status, and target_roles [1,2],
\* whichever check produced it: every alert a cycle created answers one of
\* its critical or warning results in this way, and every such result the
\* cycle has reached has its alert.
C15_HealthAlertFields ==
  \A c \in DOMAIN cycles :
    LET cy == cycles[c] IN
      /\ \A a \in DOMAIN cy.created :
           \E i \in AlertingIn(cy) :
             LET result == cy.settled[i].value
                 alert == cy.created[a]
             IN  /\ alert.source_id = result.checkName
                 /\ alert.type = "system"
                 /\ (alert.severity = "critical") = (result.status = "critical")
                 /\ (alert.severity = "medium") = (result.status # "critical")
                 /\ alert.category = result.status
                 /\ alert.target_roles = << 1, 2 >>
      /\ \A i \in AlertingIn(cy) :
           (i \in cy.processed \/ (cy.pc = "notifying" /\ cy.idx = i)) =>
             \E a \in DOMAIN cy.created :
               cy.created[a].source_id = cy.settled[i].value.checkName

\* C15 witness: one cycle created a critical alert for a database check and
\* a medium alert for the Memory Usage check, both for roles 1 and 2.
C15_Witness ==
  \E c \in DOMAIN cycles :
    \E a, b \in DOMAIN cycles[c].created :
      /\ cycles[c].created[a].source_id = "Database Connection"
      /\ cycles[c].created[a].severity = "critical"
      /\ cycles[c].created[b].source_id = "Memory Usage"
      /\ cycles[c].created[b].severity = "medium"
      /\ cycles[c].created[b].category = "warning"
      /\ cycles[c].created[a].target_roles = cycles[c].created[b].target_roles

\* C16: every notification payload built by sendAlertNotification has
\* priority urgent if the alert severity is critical, high if it is high and
\* normal otherwise, and has the sound flag set iff the severity is
\* critical; this holds alike for role-targeted and user-targeted payloads,
\* and there is one payload per target role and per target user.
C16_PriorityAndSound ==
  call.fn = "sendAlertNotification" =>
    LET alert == call.alert
        payloads == call.returned
    IN  /\ Len(payloads) = Len(alert.target_roles) + Len(alert.target_users)
        /\ \A k \in DOMAIN payloads :
             /\ payloads[k].recipient_type =
                  (IF k <= Len(alert.target_roles) THEN "role" ELSE "user")
             /\ alert.severity = "critical" => payloads[k].priority = "urgent"
             /\ alert.severity = "high" => payloads[k].priority = "high"
             /\ alert.severity \notin {"critical", "high"} =>
                  payloads[k].priority = "normal"
             /\ payloads[k].sound = (alert.severity = "critical")

\* C16 witness: an alert of severity high sent to two roles and one user:
\* three payloads, the last one user-targeted, all of priority high and
\* without sound.
C16_Witness ==
  /\ call.fn = "sendAlertNotification"
  /\ call.alert.severity = "high"
  /\ call.alert.target_roles = << 1, 2 >>
  /\ call.alert.target_users = << 7 >>
  /\ Len(call.returned) = 3
  /\ call.returned[3].recipient_type = "user"
  /\ call.returned[3].priority = "high"
  /\ ~call.returned[3].sound

\* The finished cycles in which check i was critical or warning.
AlertingCycles(i) ==
  { c \in DOMAIN cycles : cycles[c].pc = "done" /\ i \in AlertingIn(cycles[c]) }

\* The alerts the finished cycles created for check i.
AlertsOf(i) ==
  { << c, a >> \in (DOMAIN cycles) \X (1 .. NumChecks) :
      /\ cycles[c].pc = "done"
      /\ a \in DOMAIN cycles[c].created
      /\ cycles[c].created[a].source_id = CheckNames[i] }

\* C17: there is no deduplication across cycles: a check that is critical
\* or warning in N finished cycles has produced N alerts, one in each of
\* these cycles, and each of them started its round of notifications,
\* whatever lastHealthStatus held for the check.
C17_NoDeduplicationAcrossCycles ==
  \A i \in 1 .. NumChecks :
    /\ Cardinality(AlertsOf(i)) = Cardinality(AlertingCycles(i))
    /\ \A c \in AlertingCycles(i) :
         /\ \E a \in DOMAIN cycles[c].created :
              cycles[c].created[a] = HealthAlert(cycles[c].settled[i].value, c)
         /\ \E m \in DOMAIN cycles[c].sent :
              cycles[c].sent[m] = Owed(HealthAlert(cycles[c].settled[i].value, c))[1]

\* C17 witness: the Database Connection check was critical in two
\* consecutive cycles, identically; each cycle created its alert and sent
\* it to both roles, and lastHealthStatus holds the critical result.
C17_Witness ==
  /\ Len(cycles) = 2
  /\ \A c \in 1 .. 2 :
       /\ cycles[c].pc = "done"
       /\ cycles[c].settled[1] = Fulfilled(HealthCheckResult(CheckNames[1], "critical", 7000, NoError))
       /\ Len(cycles[c].created) = 1
       /\ Len(cycles[c].sent) = 2
  /\ Cardinality(AlertsOf(1)) = 2
  /\ \E e \in DOMAIN lastHealthStatus :
       lastHealthStatus[e] = HealthCheckResult(CheckNames[1], "critical", 7000, NoError)

\* No two entries of a Map have the same key.
OneEntryPerName(m) ==
  \A e, f \in DOMAIN m : m[e].checkName = m[f].checkName => e = f

\* The results whose processHealthCheckResult ended in the step.
NewlyProcessed(c) ==
  IF c \in DOMAIN cycles
    THEN cycles'[c].processed \ cycles[c].processed
    ELSE cycles'[c].processed

\* C18: lastHealthStatus holds at most one entry per check name, and when
\* processHealthCheckResult has handled a result the entry for its check
\* name is that result, replacing any older one, also when the alert or
\* the notification for it failed: after every step the names of the cache
\* are distinct and each result handled in the step is an entry of it.
C18_CacheHoldsHandledResult ==
  [][ /\ OneEntryPerName(lastHealthStatus')
      /\ \A c \in DOMAIN cycles' :
           \A i \in NewlyProcessed(c) :
             \E e \in DOMAIN lastHealthStatus' :
               lastHealthStatus'[e] = cycles'[c].settled[i].value ]_vars

\* C18 witness: the Database Connection check was healthy in a first cycle
\* and warning in a second one, whose dispatch of the alert failed: the
\* cache holds one entry per check and the warning result for the check.
C18_Witness ==
  /\ Len(cycles) = 2
  /\ cycles[1].pc = "done" /\ cycles[2].pc = "done"
  /\ cycles[1].settled[1].value.status = "healthy"
  /\ cycles[2].settled[1].value.status = "warning"
  /\ \E n \in cycles[2].failed : n.context_id = CheckNames[1]
  /\ Len(lastHealthStatus) = NumChecks
  /\ \E e \in DOMAIN lastHealthStatus : lastHealthStatus[e] = cycles[2].settled[1].value

\* C19: after any number of health-check cycles every health check name
\* maps to at most one persisted SystemHealthCheck row, and that row
\* carries the status, duration and error of the latest processed result
\* for that name: the rows have distinct names, and for each name whose
\* result has been processed (the entry of lastHealthStatus is the latest
\* one) the row of that name holds that result.
C19_OneRowPerCheckWithLatestResult ==
  /\ OneEntryPerName(healthCheckRows)
  /\ \A e \in DOMAIN lastHealthStatus :
       \E j \in DOMAIN healthCheckRows :
         /\ healthCheckRows[j].checkName = lastHealthStatus[e].checkName
         /\ healthCheckRows[j].status = lastHealthStatus[e].status
         /\ healthCheckRows[j].duration = lastHealthStatus[e].duration
         /\ healthCheckRows[j].error = lastHealthStatus[e].error

\* C20: retention cleanup run in a general-monitoring cycle with the 30-day
\* window removes exactly the performance-metric rows older than 30 days
\* and keeps every newer row: the table after the cycle is the rows of the
\* table before it that are at most 30 days old.
C20_CleanupRemovesOldRows ==
  call.fn = "performMonitoring" =>
    call.returned = { row \in call.rows : call.now - row.created_at <= 30 }

\* C21: however often getSystemHealthMonitor is called, at most one
\* SystemHealthMonitor is ever constructed and the singleton variable holds
\* it from then on; the timers armed belong to that one instance, at most
\* one health-check timer and one general-monitoring timer at any time.
C21_SingletonArmsOneTimerOfEachKind ==
  /\ constructed <= 1
  /\ (systemHealthMonitor # Null) <=> (constructed = 1)
  /\ \A t \in activeTimers : t.owner = 1
  /\ \A kind \in {"health", "monitoring"} : Cardinality(ArmedTimers(kind)) <= 1

\* The one instance has been constructed and initialized, both its timers
\* are armed and a health-check cycle has started since; further calls of
\* getSystemHealthMonitor are possible in this state.
C21_Witness ==
  /\ constructed = 1
  /\ initPc = "done"
  /\ Cardinality(ArmedTimers("health")) = 1
  /\ Cardinality(ArmedTimers("monitoring")) = 1
  /\ Len(cycles) > 0
  /\ ENABLED getSystemHealthMonitor

\* The alerts of one type among those a call of performMonitoring handed to
\* createSystemAlert.
AlertsOfType(type) == SelectSeq(call.alerts, LAMBDA a : a.type = type)

\* C22: performMonitoring runs performance sampling, production check,
\* inventory check and retention cleanup in that order; a count of overdue
\* orders above 0 gives exactly one alert of type production, severity
\* medium, for roles [2,3], a count of low-stock items above 0 exactly one
\* of type inventory, severity medium, for roles [2,4], and a count of 0
\* gives none.
C22_StepsInOrderAndCannedAlerts ==
  call.fn = "performMonitoring" =>
    /\ call.steps = << "monitorPerformance", "monitorProduction",
                       "monitorInventory", "cleanupOldData" >>
    /\ Len(AlertsOfType("production")) =
         (IF call.counts.overdueOrders > 0 THEN 1 ELSE 0)
    /\ Len(AlertsOfType("inventory")) =
         (IF call.counts.lowStockItems > 0 THEN 1 ELSE 0)
    /\ Len(call.alerts) = Len(AlertsOfType("production")) + Len(AlertsOfType("inventory"))
    /\ \A i \in DOMAIN call.alerts :
         /\ call.alerts[i].severity = "medium"
         /\ call.alerts[i].type = "production" => call.alerts[i].target_roles = << 2, 3 >>
         /\ call.alerts[i].type = "inventory" => call.alerts[i].target_roles = << 2, 4 >>

\* A cycle in which both counts are above 0 raised the two alerts, the
\* production alert first.
C22_Witness ==
  /\ call.fn = "performMonitoring"
  /\ call.counts.overdueOrders > 0
  /\ call.counts.lowStockItems > 0
  /\ Len(call.alerts) = 2
  /\ call.alerts[1].type = "production"
  /\ call.alerts[2].type = "inventory"

\* C23: cycles are not serialized.  While the health-check timer is armed
\* its next tick is dispatched whatever the earlier cycles are doing (up to
\* MaxHealthTicks ticks in one behaviour), and while the general-monitoring
\* timer is armed a general-monitoring cycle can run whether or not a
\* health-check cycle is in flight.
C23_TicksAreNotSerialized ==
  /\ (ArmedTimers("health") # {} /\ Len(cycles) < MaxHealthTicks) => ENABLED healthTick
  /\ ArmedTimers("monitoring") # {} => ENABLED monitoringTick

\* Two health-check cycles are in flight at once, the first suspended in a
\* notification dispatch and the second still awaiting its probes, and the
\* general-monitoring timer can fire in that state.
C23_Witness ==
  /\ Len(cycles) >= 2
  /\ cycles[1].pc = "notifying"
  /\ cycles[2].pc = "probing"
  /\ ENABLED monitoringTick

\* The alerts a cycle created for one of its results.
CreatedFor(cy, i) ==
  { a \in DOMAIN cy.created : cy.created[a].source_id = cy.settled[i].value.checkName }

\* C24: within one health-check cycle every completed probe result is
\* fully processed before the cycle is finished (its SystemHealthCheck row
\* is persisted, its alert is created when it is critical or warning, the
\* cache holds an entry of its name), and the results are processed one
\* after the other: while the cycle is suspended in the processing of
\* result idx, no later result has an alert or counts as processed.
C24_ResultsFullyProcessedInTurn ==
  \A c \in DOMAIN cycles :
    LET cy == cycles[c] IN
      /\ cy.pc = "done" =>
           \A i \in FulfilledIn(cy) :
             /\ \E j \in DOMAIN healthCheckRows :
                  healthCheckRows[j].checkName = cy.settled[i].value.checkName
             /\ i \in AlertingIn(cy) => CreatedFor(cy, i) # {}
             /\ MapHas(lastHealthStatus, cy.settled[i].value.checkName)
      /\ cy.pc = "notifying" =>
           \A i \in FulfilledIn(cy) :
             i > cy.idx => (CreatedFor(cy, i) = {} /\ i \notin cy.processed)

\* C25: the last-known-status cache is written only where a cycle ends the
\* processing of a result; a step that is not a step of a health-check
\* cycle (getSystemStatus, stopMonitoring, shutdown, a general-monitoring
\* cycle, initialize) leaves the cache and the persisted rows unchanged and
\* changes the timer handles only if it is the start or a stop; and what
\* getSystemStatus returns is the cache as it stands, cycle in flight or
\* not.
C25_CacheWrittenOnlyByProcessing ==
  [][ /\ lastHealthStatus' # lastHealthStatus =>
           \E c \in DOMAIN cycles : cycles'[c].processed # cycles[c].processed
      /\ cycles' = cycles =>
           /\ lastHealthStatus' = lastHealthStatus
           /\ storage' = storage
           /\ timers' # timers => (initPc' # initPc \/ stopped')
      /\ SystemStatus'.lastHealthChecks = lastHealthStatus'
    ]_vars

\* getSystemStatus can be called while a cycle is suspended in a
\* notification dispatch and the cache holds results of an earlier cycle.
C25_Witness ==
  /\ ENABLED getSystemStatus
  /\ Len(cycles) = 2
  /\ cycles[1].pc = "done"
  /\ cycles[2].pc = "notifying"
  /\ Len(SystemStatus.lastHealthChecks) = NumChecks

\* C26: once stopMonitoring() or shutdown() has returned, both timers stay
\* unarmed, wherever the un-awaited initialize() stood when stop was called:
\* in every state after a stop no timer is armed and both handles are null.
C26_StoppedStaysUnarmed ==
  stopped =>
    /\ activeTimers = {}
    /\ healthCheckInterval = NoTimer
    /\ monitoringInterval = NoTimer

\* The strings processMessage can resolve to.
Replies ==
  {"result.message", "operation error", "report", "report error",
   "completion", "greeting", "service error"}

\* C27: processMessage takes exactly one route per message: the database
\* route if the analysed intent has requiresDatabase, otherwise the report
\* route if it has requestsReport, otherwise the general completion route;
\* it resolves to a string and never rejects; and when the intent analysis
\* fails the message takes the general route and no database operation is
\* executed.
C27_OneRouteByPriority ==
  call.fn = "processMessage" =>
    LET r == call.returned
        analysed == ~call.reply.failed
    IN  /\ Len(r.routes) = 1
        /\ r.routes[1] =
             (IF analysed /\ call.reply.intent.requiresDatabase THEN "database"
              ELSE IF analysed /\ call.reply.intent.requestsReport THEN "report"
              ELSE "general")
        /\ r.routes[1] # "database" => r.ops = << >>
        /\ ~r.rejected
        /\ r.returned \in Replies
        /\ call.reply.failed => (r.routes = << "general" >> /\ r.ops = << >>)

\* The intent analysis failed, and the message was answered by the general
\* completion.
C27_Witness ==
  /\ call.fn = "processMessage"
  /\ call.reply.failed
  /\ call.returned.routes = << "general" >>
  /\ call.returned.returned = "completion"

C29_PreviewsMatchTheirRows ==
  \A p \in quantityPreviews :
    /\ p.index \in DOMAIN productionOrdersInForm
    /\ productionOrdersInForm[p.index].customer_product_id = p.customer_product_id
    /\ productionOrdersInForm[p.index].quantity_kg = p.quantity_kg

\* C30: in OrdersTabs onBulkDelete is called only by an administrator, with
\* a non-empty selection and after the confirmation was accepted, and
\* onBulkStatusChange only with a non-empty selection; a bulk operation
\* that succeeded left the selection empty and one that failed left it as
\* it was; and the selection holds no id twice and only ids of orders in
\* the current filteredOrders.
C30_BulkGatedAndSelectionWithinFilter ==
  /\ \A n \in DOMAIN bulkCalls :
       /\ bulkCalls[n].ids # << >>
       /\ bulkCalls[n].kind = "delete" => (bulkCalls[n].admin /\ bulkCalls[n].confirmed)
       /\ bulkCalls[n].outcome = "succeeded" => bulkCalls[n].after = << >>
       /\ bulkCalls[n].outcome = "failed" => bulkCalls[n].after = bulkCalls[n].before
  /\ Cardinality(Ids(selectedOrders)) = Len(selectedOrders)
  /\ Ids(selectedOrders) \subseteq Ids(filteredOrders)

====
